---- MODULE Spec2Model ----
(***************************************************************************)
(* Gossip + majority consensus of the camera variants                      *)
(* (src/unnamed/part_000, class Node): every node measures a local         *)
(* observation per tick, floods it to its peers, de-duplicates on          *)
(* (tick, from) and answers local_decision from its aggregate.             *)
(***************************************************************************)
EXTENDS Integers, Sequences, FiniteSets, TLC

(* ------------------------------ bounds -------------------------------- *)
NumNodes == 3
MaxTick == 1
MaxCount == 1
MaxMeasure == 2
MaxOrigin == 4
MaxFeed == 2
MaxInbox == 2
CycleSize == 20
CycleRounds == 3
MaxWords == 1
MaxInject == 2

Nodes == 0 .. (NumNodes - 1)
Ticks == 0 .. MaxTick
\* ids a message may name in its 'from' field
Origins == 0 .. MaxOrigin
Keys == Ticks \X Origins
Quorums == (-1) .. (MaxOrigin + 2)

\* the node whose view is read: nodes[0]
Sink == 0

VARIABLES
    peers,      \* peers[n]    : list of node ids (Node.peers)
    ok,         \* ok[n]       : camera usable (Node.ok)
    inbox,      \* inbox[n]    : FIFO of Msg (Node.inbox)
    seen,       \* seen[n]     : set of <<tick, from>> (Node.seen)
    agg,        \* agg[n]      : tick -> (from -> (present, count, valid)) (Node.agg)
    \* history variables: they record what the handlers did, no handler reads them
    measures,   \* measures[n][t] : calls of measure_and_broadcast(t) on n
    handled,    \* handled[n]     : keys n has run its seen check on
    dups,       \* dups[n]        : keys of messages n discarded at the seen check
    conflicts,  \* conflicts[n]   : keys of discarded messages whose content differed
    stored,     \* stored[n][k]   : assignments self.agg[t][f] = ... made by n
    gossiped,   \* gossiped[n][k] : calls self.gossip(m) made by n with key k
    enq,        \* enq[n][k]      : p.receive(m) calls made by n with key k
    got,        \* got[n][k]      : receive(m) calls made on n with key k
    first,      \* first[n]       : key -> first triple n stored for it
    fed,        \* receive() calls made from outside the nodes
    pass,       \* pass[i] : a process_messages call on the sink run statement by statement
    turn,       \* process_messages calls the round schedule has made
    reply       \* the last local_decision call: node, tick, min_quorum, value returned

\* the keyword-search variant (src/test.py, class Node of the first script)
VARIABLES
    qpeers,                 \* qpeers[n]  : list of node ids (Node.peers)
    faulty,                 \* faulty[n]  : Node.faulty
    docs,                   \* docs[n]    : occurrences of the term in Node.docs
    qinbox,                 \* qinbox[n]  : FIFO of Message (Node.inbox)
    seen_queries,           \* seen_queries[n] : set of query ids
    rebroadcasted_results,  \* rebroadcasted_results[n] : set of <<query_id, from>>
    aggregates,             \* aggregates[n] : query_id -> aggregate record
    \* history variables of the search variant
    did,                    \* did[n][q] : what handle_query(q) has done on n, counted
    tally,                  \* tally[n][<<q, f>>] : what n has done with f's RESULT for q
    injected                \* QUERY messages handed to receive() from outside

searchVars ==
    <<qpeers, faulty, docs, qinbox, seen_queries, rebroadcasted_results,
      aggregates, did, tally, injected>>

\* the voting scripts (src/simple_version.py, src/little_update.py,
\* src/temperature.py): one of them runs in a behaviour
VARIABLES
    script,     \* the script whose nodes these are
    vpeers,     \* vpeers[n]  : list of node ids (Node.peers)
    vfaulty,    \* vfaulty[n] : Node.faulty (temperature.py)
    vinbox,     \* vinbox[n]  : FIFO of (number, vote) messages (Node.inbox)
    known,      \* known[n]   : number -> list of votes (Node.known_numbers,
                \*              Node.known_measurements); each vote is kept with the
                \*              node whose call made it, which no method reads
    cast        \* calls of vote, measure and receive made from outside the nodes

tallyVars == <<script, vpeers, vfaulty, vinbox, known, cast>>

\* the word-count script (src/test.py, class Node of the last script)
VARIABLES
    wpeers,     \* wpeers[n]    : list of node ids (Node.peers)
    wfaulty,    \* wfaulty[n]   : Node.faulty
    local_doc,  \* local_doc[n] : occurrences of the query term in Node.local_doc
    winbox,     \* winbox[n]    : FIFO of (msg_type, payload) messages (Node.inbox)
    word_seen,  \* word_seen[n] : Node.seen_queries, terms and (term, sender_id) pairs
    results,    \* results[n]   : query_term -> count (Node.results)
    \* history variables of the word-count script
    added,      \* added[n][f]  : times n has put f's count into results
    asked       \* the bootstrap QUERY has been handed to a node

wordVars == <<wpeers, wfaulty, local_doc, winbox, word_seen, results, added, asked>>

otherVars == <<tallyVars, wordVars>>

\* the fields of the camera nodes
cameraVars ==
    <<peers, ok, inbox, seen, agg,
      measures, handled, dups, conflicts, stored, gossiped, enq, got, first, fed, pass,
      turn, reply>>

\* what the camera nodes' handlers never touch
Outside == <<turn, reply, searchVars, otherVars>>

vars ==
    <<peers, ok, inbox, seen, agg,
      measures, handled, dups, conflicts, stored, gossiped, enq, got, first, fed, pass,
      turn, reply, searchVars, otherVars>>

(* ------------------------------ messages ------------------------------ *)
Obs(p, c, v) == [present |-> p, count |-> c, valid |-> v]

Msg(t, f, o) ==
    [kind |-> "OBS", tick |-> t, from |-> f,
     present |-> o.present, count |-> o.count, valid |-> o.valid]

KeyOf(m) == <<m.tick, m.from>>
Payload(m) == Obs(m.present, m.count, m.valid)

\* what a successful read can report: the detector returns present together
\* with a positive count, or absent with count 0
Detections ==
    {Obs(TRUE, c, TRUE) : c \in 1 .. MaxCount} \cup {Obs(FALSE, 0, TRUE)}

\* valid = False, present = False, count = 0: the defaults of a failed read
Invalid == Obs(FALSE, 0, FALSE)

Readings == Detections \cup {Invalid}

(* ------------------------------ peer graphs --------------------------- *)
NodeList == [i \in 1 .. NumNodes |-> i - 1]

\* Node.__init__: self.peers = peers or []
Unconnected == [n \in Nodes |-> <<>>]

\* main(): for n in nodes: n.connect(nodes)   (the list holds n itself)
FullMesh == [n \in Nodes |-> NodeList]

\* directed cycle n -> n+1
Ring == [n \in Nodes |-> <<(n + 1) % NumNodes>>]

\* undirected path 0 - 1 - ... - (NumNodes-1)
Line ==
    [n \in Nodes |->
        (IF n > 0 THEN <<n - 1>> ELSE <<>>) \o
        (IF n < NumNodes - 1 THEN <<n + 1>> ELSE <<>>)]

\* the last node is cut off from a mesh of the others
Split ==
    [n \in Nodes |->
        IF n = NumNodes - 1 THEN <<>>
        ELSE SelectSeq(NodeList, LAMBDA x : x # NumNodes - 1)]

Graphs == {FullMesh, Ring, Line, Split}

(* ------------------------------ dict helpers -------------------------- *)
AggPutFreshRow(a, t, f, v) ==
    [x \in (DOMAIN a) \cup {t} |-> IF x = t THEN (f :> v) ELSE a[x]]

\* self.agg[t][f] = v on a defaultdict(dict)
AggPut(a, t, f, v) ==
    LET inner == IF t \in DOMAIN a THEN a[t] ELSE <<>>
        row == [y \in (DOMAIN inner) \cup {f} |-> IF y = f THEN v ELSE inner[y]]
    IN  [x \in (DOMAIN a) \cup {t} |-> IF x = t THEN row ELSE a[x]]

HasEntry(a, t, f) == t \in DOMAIN a /\ f \in DOMAIN a[t]

Bump(cnt, n, k) == [cnt EXCEPT ![n][k] = @ + 1]

FirstPut(fs, k, v) ==
    IF k \in DOMAIN fs THEN fs
    ELSE [x \in (DOMAIN fs) \cup {k} |-> IF x = k THEN v ELSE fs[x]]

(* ------------------------------ gossip -------------------------------- *)
SendAllNoSelfCheck(boxes, n, ps, m) ==
    [p \in Nodes |->
        IF \E i \in 1 .. Len(ps) : ps[i] = p THEN Append(boxes[p], m) ELSE boxes[p]]

SendFirstOnly(boxes, n, ps, m) ==
    [p \in DOMAIN boxes |->
        IF p # n /\ ps # <<>> /\ ps[1] = p THEN Append(boxes[p], m) ELSE boxes[p]]

SendAllButFirst(boxes, n, ps, m) ==
    [p \in DOMAIN boxes |->
        IF p # n /\ \E i \in 2 .. Len(ps) : ps[i] = p
        THEN Append(boxes[p], m) ELSE boxes[p]]

\* for p in self.peers: if p.node_id != self.node_id: p.receive(msg)
RECURSIVE SendAll(_, _, _, _)
SendAll(boxes, n, ps, m) ==
    IF ps = <<>> THEN boxes
    ELSE LET p == Head(ps)
             nb == IF p # n THEN [boxes EXCEPT ![p] = Append(@, m)] ELSE boxes
         IN  SendAll(nb, n, Tail(ps), m)

RECURSIVE SumOver(_, _)
SumOver(f, S) ==
    IF S = {} THEN 0
    ELSE LET x == CHOOSE y \in S : TRUE IN f[x] + SumOver(f, S \ {x})

\* messages queued over all inboxes
Queue(boxes) == SumOver([p \in DOMAIN peers |-> Len(boxes[p])], DOMAIN peers)

\* self.gossip(m); st carries the inboxes and the gossip history through a handler
Gossip(st, n, m) ==
    LET nb == SendAll(st.boxes, n, peers[n], m)
    IN  [st EXCEPT !.boxes = nb,
                   !.gossiped = Bump(@, n, KeyOf(m)),
                   !.enq = [@ EXCEPT ![n][KeyOf(m)] = @ + Queue(nb) - Queue(st.boxes)],
                   !.got = [p \in DOMAIN peers |->
                               IF Len(nb[p]) = Len(st.boxes[p]) THEN @[p]
                               ELSE [@[p] EXCEPT ![KeyOf(m)] =
                                        @ + Len(nb[p]) - Len(st.boxes[p])]]]

GossipNothing(st, n, outbox) == st

\* for m in outbox: self.gossip(m)
RECURSIVE GossipAll(_, _, _)
GossipAll(st, n, outbox) ==
    IF outbox = <<>> THEN st
    ELSE GossipAll(Gossip(st, n, Head(outbox)), n, Tail(outbox))

(* ------------------------------ handlers ------------------------------ *)
\* the handler state threaded through one call on node n
Start(n) ==
    [seen |-> seen[n], agg |-> agg[n], outbox |-> <<>>, boxes |-> inbox,
     handled |-> handled[n], dups |-> dups[n], conflicts |-> conflicts[n],
     stored |-> stored, gossiped |-> gossiped, enq |-> enq, got |-> got,
     first |-> first[n]]

AcceptKeepLatest(st, n, t, f, o) ==
    [st EXCEPT !.seen = {<<t, f>>},
               !.agg = AggPut(@, t, f, o),
               !.stored = Bump(@, n, <<t, f>>),
               !.first = FirstPut(@, <<t, f>>, o)]

AcceptSkipInvalid(st, n, t, f, o) ==
    [st EXCEPT !.seen = @ \cup {<<t, f>>},
               !.agg = IF o.valid THEN AggPut(@, t, f, o) ELSE @,
               !.stored = Bump(@, n, <<t, f>>),
               !.first = FirstPut(@, <<t, f>>, o)]

\* seen.add(key); agg[t][f] = (present, count, valid)
Accept(st, n, t, f, o) ==
    [st EXCEPT !.seen = @ \cup {<<t, f>>},
               !.agg = AggPut(@, t, f, o),
               !.stored = Bump(@, n, <<t, f>>),
               !.first = FirstPut(@, <<t, f>>, o)]

\* if key in self.seen: continue
Discard(st, m) ==
    [st EXCEPT !.dups = @ \cup {KeyOf(m)},
               !.conflicts =
                   IF HasEntry(st.agg, m.tick, m.from)
                      /\ st.agg[m.tick][m.from] = Payload(m)
                   THEN @ ELSE @ \cup {KeyOf(m)}]

HandleMsgNoSeenCheck(st, n, m) ==
    IF m.kind = "OBS"
    THEN [Accept([st EXCEPT !.handled = @ \cup {KeyOf(m)}], n, m.tick, m.from, Payload(m))
             EXCEPT !.outbox = Append(@, m)]
    ELSE st

HandleMsgLastWins(st, n, m) ==
    IF m.kind = "OBS"
    THEN LET s1 == [st EXCEPT !.handled = @ \cup {KeyOf(m)}]
         IN  IF KeyOf(m) \in s1.seen
             THEN [Discard(s1, m) EXCEPT !.agg = AggPut(@, m.tick, m.from, Payload(m))]
             ELSE [Accept(s1, n, m.tick, m.from, Payload(m))
                      EXCEPT !.outbox = Append(@, m)]
    ELSE st

HandleMsgRelayDup(st, n, m) ==
    IF m.kind = "OBS"
    THEN LET s1 == [st EXCEPT !.handled = @ \cup {KeyOf(m)}]
         IN  IF KeyOf(m) \in s1.seen
             THEN [Discard(s1, m) EXCEPT !.outbox = Append(@, m)]
             ELSE [Accept(s1, n, m.tick, m.from, Payload(m))
                      EXCEPT !.outbox = Append(@, m)]
    ELSE st

HandleMsgKeyByOrigin(st, n, m) ==
    IF m.kind = "OBS"
    THEN LET s1 == [st EXCEPT !.handled = @ \cup {KeyOf(m)}]
         IN  IF \E k \in s1.seen : k[2] = m.from
             THEN Discard(s1, m)
             ELSE [Accept(s1, n, m.tick, m.from, Payload(m))
                      EXCEPT !.outbox = Append(@, m)]
    ELSE st

HandleMsgRestamp(st, n, m) ==
    IF m.kind = "OBS"
    THEN LET s1 == [st EXCEPT !.handled = @ \cup {KeyOf(m)}]
         IN  IF KeyOf(m) \in s1.seen
             THEN Discard(s1, m)
             ELSE [Accept(s1, n, m.tick, m.from, Payload(m))
                      EXCEPT !.outbox = Append(@, Msg(m.tick, n, Payload(m)))]
    ELSE st

\* one iteration of the while loop of process_messages on message m
HandleMsg(st, n, m) ==
    IF m.kind = "OBS"
    THEN LET s1 == [st EXCEPT !.handled = @ \cup {KeyOf(m)}]
         IN  IF KeyOf(m) \in s1.seen
             THEN Discard(s1, m)
             ELSE [Accept(s1, n, m.tick, m.from, Payload(m))
                      EXCEPT !.outbox = Append(@, m)]
    ELSE st

\* while not self.inbox.empty(): m = self.inbox.get(); ...
RECURSIVE DrainLoop(_, _, _)
DrainLoop(st, n, q) ==
    IF q = <<>> THEN st
    ELSE DrainLoop(HandleMsg(st, n, Head(q)), n, Tail(q))

TakenNotRemoved(boxes, n) == boxes

\* the inboxes once the loop has taken every message of n with get()
Taken(boxes, n) == [boxes EXCEPT ![n] = <<>>]

CommitSharedSeen(st, n) ==
    /\ inbox' = st.boxes
    /\ seen' = [p \in DOMAIN seen |-> st.seen]
    /\ agg' = [agg EXCEPT ![n] = st.agg]
    /\ handled' = [handled EXCEPT ![n] = st.handled]
    /\ dups' = [dups EXCEPT ![n] = st.dups]
    /\ conflicts' = [conflicts EXCEPT ![n] = st.conflicts]
    /\ stored' = st.stored
    /\ gossiped' = st.gossiped
    /\ enq' = st.enq
    /\ got' = st.got
    /\ first' = [first EXCEPT ![n] = st.first]

\* writes the handler state of node n back
Commit(st, n) ==
    /\ inbox' = st.boxes
    /\ seen' = [seen EXCEPT ![n] = st.seen]
    /\ agg' = [agg EXCEPT ![n] = st.agg]
    /\ handled' = [handled EXCEPT ![n] = st.handled]
    /\ dups' = [dups EXCEPT ![n] = st.dups]
    /\ conflicts' = [conflicts EXCEPT ![n] = st.conflicts]
    /\ stored' = st.stored
    /\ gossiped' = st.gossiped
    /\ enq' = st.enq
    /\ got' = st.got
    /\ first' = [first EXCEPT ![n] = st.first]

\* the body of process_messages: drain the inbox, then gossip the outbox
Relay(n) ==
    \E s1 \in {DrainLoop([Start(n) EXCEPT !.boxes = Taken(@, n)], n, inbox[n])} :
        \E s2 \in {GossipAll(s1, n, s1.outbox)} : Commit(s2, n)

\* process_messages on a node that has messages queued
Process(n) ==
    /\ inbox[n] # <<>>
    /\ Relay(n)
    /\ UNCHANGED <<peers, ok, measures, fed, pass>>
    /\ UNCHANGED Outside

\* key = (tick, node_id); if key not in seen: add, store, gossip
Publish(n, t, o) ==
    /\ measures' = [measures EXCEPT ![n][t] = @ + 1]
    /\ \E s0 \in {[Start(n) EXCEPT !.handled = @ \cup {<<t, n>>}]} :
           \E s1 \in {IF <<t, n>> \in seen[n] THEN s0
                       ELSE Gossip(Accept(s0, n, t, n, o), n, Msg(t, n, o))} :
               Commit(s1, n)
    /\ UNCHANGED <<peers, fed, pass>>
    /\ UNCHANGED Outside

\* measure_and_broadcast with a camera that delivers a frame
MeasureOk(n, t) ==
    /\ ok[n]
    /\ \E d \in Detections : Publish(n, t, d)
    /\ UNCHANGED ok

\* measure_and_broadcast whose cap.read() fails: self.ok = False
MeasureFail(n, t) ==
    /\ ok[n]
    /\ ok' = [ok EXCEPT ![n] = FALSE]
    /\ Publish(n, t, Invalid)

MeasureBrokenSilent(n, t) ==
    /\ ~ok[n]
    /\ measures' = [measures EXCEPT ![n][t] = @ + 1]
    /\ UNCHANGED <<peers, ok, inbox, seen, agg, handled, dups, conflicts, stored,
                   gossiped, enq, got, first, fed, pass>>
    /\ UNCHANGED Outside

MeasureBrokenReopens(n, t) ==
    /\ ~ok[n]
    /\ ok' = [ok EXCEPT ![n] = TRUE]
    /\ \E d \in Detections : Publish(n, t, d)

\* measure_and_broadcast on a node whose camera is already marked broken
MeasureBroken(n, t) ==
    /\ ~ok[n]
    /\ Publish(n, t, Invalid)
    /\ UNCHANGED ok

\* measure_and_broadcast calls made so far, over all nodes and ticks
MeasureCalls == SumOver([k \in Ticks \X Nodes |-> measures[k[2]][k[1]]], Ticks \X Nodes)

\* any node, any tick, at most MaxMeasure calls in a run
Measure(n, t) ==
    /\ MeasureCalls < MaxMeasure
    /\ (MeasureOk(n, t) \/ MeasureFail(n, t) \/ MeasureBroken(n, t))

(* ------------------------------ specification ------------------------- *)
\* two calls of process_messages that may run interleaved on one node
Passes == {1, 2}
NoMsg == [kind |-> "NONE"]
Idle == [pc |-> "idle", m |-> NoMsg, outbox |-> <<>>]

\* no local_decision call made yet
NoReply == [asked |-> FALSE]

\* Node.__init__ for the camera nodes with ids N; K: the keys counted
BlankOn(N, K) ==
    /\ pass = [i \in Passes |-> Idle]
    /\ inbox = [n \in N |-> <<>>]
    /\ seen = [n \in N |-> {}]
    /\ agg = [n \in N |-> <<>>]
    /\ measures = [n \in N |-> [t \in Ticks |-> 0]]
    /\ handled = [n \in N |-> {}]
    /\ dups = [n \in N |-> {}]
    /\ conflicts = [n \in N |-> {}]
    /\ stored = [n \in N |-> [k \in K |-> 0]]
    /\ gossiped = [n \in N |-> [k \in K |-> 0]]
    /\ enq = [n \in N |-> [k \in K |-> 0]]
    /\ got = [n \in N |-> [k \in K |-> 0]]
    /\ first = [n \in N |-> <<>>]
    /\ fed = 0
    /\ turn = 0
    /\ reply = NoReply

\* the query ids in use
QueryIds == {"q1", "q2"}

\* nothing done yet for a query
NoneDone == [computed |-> 0, contributed |-> 0, emitted |-> 0, forwarded |-> 0]

\* nothing done yet with a contributor's RESULT
NoneTallied == [arrived |-> 0, tallied |-> 0, gossiped |-> 0]

\* Node.__init__ of the search variant
SearchBlank ==
    /\ qinbox = [n \in Nodes |-> <<>>]
    /\ seen_queries = [n \in Nodes |-> {}]
    /\ rebroadcasted_results = [n \in Nodes |-> {}]
    /\ aggregates = [n \in Nodes |-> <<>>]
    /\ did = [n \in Nodes |-> [q \in QueryIds |-> NoneDone]]
    /\ tally = [n \in Nodes |-> [k \in QueryIds \X Nodes |-> NoneTallied]]
    /\ injected = 0

\* search nodes constructed and left alone: no peers, empty documents
SearchIdle ==
    /\ qpeers = Unconnected
    /\ faulty = [n \in Nodes |-> FALSE]
    /\ docs = [n \in Nodes |-> 0]
    /\ SearchBlank

\* Node.__init__ of the voting scripts: none of them started
TallyBlank ==
    /\ vinbox = [n \in Nodes |-> <<>>]
    /\ known = [n \in Nodes |-> <<>>]
    /\ cast = 0

TallyIdle ==
    /\ script = "none"
    /\ vpeers = Unconnected
    /\ vfaulty = [n \in Nodes |-> FALSE]
    /\ TallyBlank

\* Node.__init__ of the word-count script
WordBlank ==
    /\ winbox = [n \in Nodes |-> <<>>]
    /\ word_seen = [n \in Nodes |-> {}]
    /\ results = [n \in Nodes |-> <<>>]
    /\ added = [n \in Nodes |-> [f \in Nodes |-> 0]]
    /\ asked = FALSE

WordIdle ==
    /\ wpeers = Unconnected
    /\ wfaulty = [n \in Nodes |-> FALSE]
    /\ local_doc = [n \in Nodes |-> 0]
    /\ WordBlank

OtherIdle == TallyIdle /\ WordIdle

Blank ==
    /\ BlankOn(Nodes, Keys)
    /\ SearchIdle
    /\ OtherIdle

Init ==
    /\ peers \in Graphs
    /\ ok \in [Nodes -> BOOLEAN]
    /\ Blank

Next ==
    \/ \E n \in Nodes, t \in Ticks : Measure(n, t)
    \/ \E n \in Nodes : Process(n)

Spec == Init /\ [][Next]_vars

\* any of the graphs, every camera opened
FloodInit ==
    /\ peers \in Graphs
    /\ ok = [n \in Nodes |-> TRUE]
    /\ Blank

\* every call of process_messages on a non-empty inbox is eventually made:
\* main() runs every node's process_messages in each gossip round
FloodSpec == FloodInit /\ [][Next]_vars /\ \A n \in Nodes : WF_vars(Process(n))

\* the tick of the round below: for tick in range(args.steps)
RoundTick == 0

\* for n in nodes: n.measure_and_broadcast(tick)  -- once per node, in node order
RoundMeasure(n) ==
    /\ measures[n][RoundTick] = 0
    /\ \A m \in Nodes : m < n => measures[m][RoundTick] = 1
    /\ (MeasureOk(n, RoundTick) \/ MeasureFail(n, RoundTick)
            \/ MeasureBroken(n, RoundTick))

RoundNext ==
    \/ \E n \in Nodes : RoundMeasure(n)
    \/ \E n \in Nodes : Process(n)

RoundSpec == Init /\ [][RoundNext]_vars

(* ------------------------------ rounds on a cycle -------------------- *)
CycleNodes == 0 .. (CycleSize - 1)

\* each node connected to its two ring neighbours
Cycle ==
    [n \in CycleNodes |-> <<(n + CycleSize - 1) % CycleSize, (n + 1) % CycleSize>>]

\* the cycle built, node 0's camera opened or not
CycleInit ==
    /\ peers = Cycle
    /\ \E b \in BOOLEAN : ok = [n \in CycleNodes |-> n # 0 \/ b]
    /\ BlankOn(CycleNodes, Ticks \X CycleNodes)
    /\ SearchIdle
    /\ OtherIdle

\* node 0 originates the one observation of the run
CycleMeasure(t) ==
    /\ \A u \in Ticks : measures[0][u] = 0
    /\ (MeasureOk(0, t) \/ MeasureFail(0, t) \/ MeasureBroken(0, t))

\* for _ in range(args.rounds): for n in nodes: n.process_messages()
\* the next call of the schedule, on an empty inbox too
CycleDrain ==
    /\ \E t \in Ticks : measures[0][t] = 1
    /\ turn < CycleRounds * CycleSize
    /\ Relay(turn % CycleSize)
    /\ turn' = turn + 1
    /\ UNCHANGED <<peers, ok, measures, fed, pass, reply, searchVars, otherVars>>

CycleNext ==
    \/ \E t \in Ticks : CycleMeasure(t)
    \/ CycleDrain

CycleSpec == CycleInit /\ [][CycleNext]_vars

(* ------------------------------ interleaved drain passes -------------- *)
\* The statements of process_messages, one step each, for two calls on the
\* sink. Nothing in Node serialises them: there is no lock around the seen
\* check and the seen.add that follows it (Queue.get alone is atomic).
At(i, label) == pass[i].pc = label
Goto(i, label) == pass' = [pass EXCEPT ![i].pc = label]
Rest == <<peers, ok, measures, fed, Outside>>

\* outbox = []
PassCall(i) ==
    /\ At(i, "idle")
    /\ pass' = [pass EXCEPT ![i] = [pc |-> "loop", m |-> NoMsg, outbox |-> <<>>]]
    /\ UNCHANGED <<inbox, seen, agg, handled, dups, conflicts, stored, gossiped,
                   enq, got, first>>
    /\ UNCHANGED Rest

\* while not self.inbox.empty():
PassTest(i) ==
    /\ At(i, "loop")
    /\ Goto(i, IF inbox[Sink] = <<>> THEN "flush" ELSE "get")
    /\ UNCHANGED <<inbox, seen, agg, handled, dups, conflicts, stored, gossiped,
                   enq, got, first>>
    /\ UNCHANGED Rest

\* m = self.inbox.get()   (blocks while the queue is empty)
PassGet(i) ==
    /\ At(i, "get")
    /\ inbox[Sink] # <<>>
    /\ pass' = [pass EXCEPT ![i].pc = "check", ![i].m = Head(inbox[Sink])]
    /\ inbox' = [inbox EXCEPT ![Sink] = Tail(@)]
    /\ UNCHANGED <<seen, agg, handled, dups, conflicts, stored, gossiped, enq, got, first>>
    /\ UNCHANGED Rest

\* if m.kind == 'OBS': ... if key in self.seen: continue
PassCheck(i) ==
    /\ At(i, "check")
    /\ LET m == pass[i].m IN
       IF m.kind # "OBS"
       THEN /\ Goto(i, "loop")
            /\ UNCHANGED <<handled, dups, conflicts>>
       ELSE /\ handled' = [handled EXCEPT ![Sink] = @ \cup {KeyOf(m)}]
            /\ IF KeyOf(m) \in seen[Sink]
               THEN /\ Goto(i, "loop")
                    /\ \E st \in {Discard(Start(Sink), m)} :
                           /\ dups' = [dups EXCEPT ![Sink] = st.dups]
                           /\ conflicts' = [conflicts EXCEPT ![Sink] = st.conflicts]
               ELSE /\ Goto(i, "add")
                    /\ UNCHANGED <<dups, conflicts>>
    /\ UNCHANGED <<inbox, seen, agg, stored, gossiped, enq, got, first>>
    /\ UNCHANGED Rest

\* self.seen.add(key)
PassAdd(i) ==
    /\ At(i, "add")
    /\ seen' = [seen EXCEPT ![Sink] = @ \cup {KeyOf(pass[i].m)}]
    /\ Goto(i, "store")
    /\ UNCHANGED <<inbox, agg, handled, dups, conflicts, stored, gossiped, enq, got, first>>
    /\ UNCHANGED Rest

\* self.agg[t][f] = (...); outbox.append(m)
PassStore(i) ==
    /\ At(i, "store")
    /\ LET m == pass[i].m IN
       /\ agg' = [agg EXCEPT ![Sink] = AggPut(@, m.tick, m.from, Payload(m))]
       /\ stored' = Bump(stored, Sink, KeyOf(m))
       /\ first' = [first EXCEPT ![Sink] = FirstPut(@, KeyOf(m), Payload(m))]
       /\ pass' = [pass EXCEPT ![i].pc = "loop", ![i].outbox = Append(@, m)]
    /\ UNCHANGED <<inbox, seen, handled, dups, conflicts, gossiped, enq, got>>
    /\ UNCHANGED Rest

\* for m in outbox: self.gossip(m)
PassFlush(i) ==
    /\ At(i, "flush")
    /\ \E st \in {GossipAll(Start(Sink), Sink, pass[i].outbox)} :
           /\ inbox' = st.boxes
           /\ gossiped' = st.gossiped
           /\ enq' = st.enq
           /\ got' = st.got
    /\ pass' = [pass EXCEPT ![i] = [pc |-> "done", m |-> NoMsg, outbox |-> <<>>]]
    /\ UNCHANGED <<seen, agg, handled, dups, conflicts, stored, first>>
    /\ UNCHANGED Rest

PassStep(i) ==
    \/ PassCall(i) \/ PassTest(i) \/ PassGet(i) \/ PassCheck(i)
    \/ PassAdd(i) \/ PassStore(i) \/ PassFlush(i)

\* the mesh main() builds, every camera opened
ConcInit ==
    /\ peers = FullMesh
    /\ ok = [n \in Nodes |-> TRUE]
    /\ Blank

\* a single observation is originated in the run
Originate(n, t) ==
    /\ MeasureCalls = 0
    /\ Measure(n, t)

\* one of the other nodes measures, the others relay as before; the sink
\* drains in two passes
ConcNext ==
    \/ \E n \in Nodes \ {Sink}, t \in Ticks : Originate(n, t)
    \/ \E n \in Nodes \ {Sink} : Process(n)
    \/ \E i \in Passes : PassStep(i)

ConcSpec == ConcInit /\ [][ConcNext]_vars

\* main() is one thread: while a process_messages call of the sink is between
\* its first and its last statement no other call runs
PassBusy == pass[1].pc \notin {"idle", "done"}

SoloMeasure(n, t) ==
    /\ ~PassBusy
    /\ Measure(n, t)

SoloProcess(n) ==
    /\ ~PassBusy
    /\ Process(n)

\* one process_messages call of the sink run statement by statement, the
\* calls made before and after it as whole calls
SoloNext ==
    \/ \E n \in Nodes, t \in Ticks : SoloMeasure(n, t)
    \/ \E n \in Nodes \ {Sink} : SoloProcess(n)
    \/ PassStep(1)

SoloSpec == Init /\ [][SoloNext]_vars

(* ------------------------------ local_decision ------------------------ *)
RECURSIVE Gcd(_, _)
Gcd(a, b) == IF b = 0 THEN a ELSE Gcd(b, a % b)

RatioOfAbsent(yes, contributors) ==
    LET g == Gcd(contributors - yes, contributors)
    IN  <<(contributors - yes) \div g, contributors \div g>>

\* yes / contributors, a float: kept as the fraction in lowest terms
Ratio(yes, contributors) ==
    LET g == Gcd(yes, contributors) IN <<yes \div g, contributors \div g>>

NoDecision == [decided |-> FALSE]

ValidFromAll(a, tick) == DOMAIN a[tick]

\* entries = [(p,c,v) for (p,c,v) in self.agg[tick].values() if v]
ValidFrom(a, tick) == {f \in DOMAIN a[tick] : a[tick][f].valid}

QuorumMissedAtEqual(contributors, min_quorum) ==
    contributors <= min_quorum \/ contributors = 0

QuorumMissedInverted(contributors, min_quorum) ==
    contributors > min_quorum \/ contributors = 0

\* if contributors < min_quorum or contributors == 0: return None
QuorumMissed(contributors, min_quorum) ==
    contributors < min_quorum \/ contributors = 0

MajorityStrict(yes, contributors) == yes > (contributors - yes)

\* yes >= (contributors - yes)
Majority(yes, contributors) == yes >= (contributors - yes)

LocalDecision(a, tick, min_quorum) ==
    IF tick \notin DOMAIN a THEN NoDecision
    ELSE LET entries == ValidFrom(a, tick)
             contributors == Cardinality(entries)
         IN  IF QuorumMissed(contributors, min_quorum) THEN NoDecision
             ELSE LET yes == Cardinality({f \in entries : a[tick][f].present})
                      total_count == SumOver([f \in entries |-> a[tick][f].count], entries)
                  IN  [decided |-> TRUE,
                       majority |-> Majority(yes, contributors),
                       ratio |-> Ratio(yes, contributors),
                       contributors |-> contributors,
                       total_count |-> total_count]

\* self.agg[tick] on a defaultdict(dict): a missing tick gets an empty dict
AggRead(a, tick) ==
    IF tick \in DOMAIN a THEN a
    ELSE [x \in (DOMAIN a) \cup {tick} |-> IF x = tick THEN <<>> ELSE a[x]]

AfterDecisionUnguarded(a, tick) == AggRead(a, tick)

\* self.agg once local_decision(tick) has returned: line 120 tests membership
\* without indexing, line 122 indexes a tick that is present
AfterDecision(a, tick) ==
    IF tick \notin DOMAIN a THEN a ELSE AggRead(a, tick)

\* a call n.local_decision(tick, min_quorum=q); the value returned is kept
Ask(n, tick, q) ==
    /\ reply' = [asked |-> TRUE, node |-> n, tick |-> tick, min_quorum |-> q,
                  value |-> LocalDecision(agg[n], tick, q)]
    /\ agg' = [agg EXCEPT ![n] = AfterDecision(@, tick)]
    /\ UNCHANGED <<peers, ok, inbox, seen, measures, handled, dups, conflicts,
                   stored, gossiped, enq, got, first, fed, pass, turn, searchVars, otherVars>>

(* ------------------------------ receive() from outside ---------------- *)
\* def receive(self, msg): self.inbox.put(msg), called by the environment
Receive(n, m) ==
    /\ inbox' = [inbox EXCEPT ![n] = Append(@, m)]
    /\ fed' = fed + 1
    /\ got' = IF m.kind = "OBS" THEN Bump(got, n, KeyOf(m)) ELSE got
    /\ UNCHANGED <<peers, ok, seen, agg, measures, handled, dups, conflicts,
                   stored, gossiped, enq, first, pass>>
    /\ UNCHANGED Outside

\* any observation message naming a node, and a message of another kind
FeedMsgs ==
    {Msg(t, f, o) : t \in Ticks, f \in Nodes, o \in Readings}
        \cup {[kind |-> "PING"]}

\* at most MaxFeed arbitrary messages, copies and contradicting ones included
Feed(m) ==
    /\ fed < MaxFeed
    /\ Receive(Sink, m)

\* nodes as constructed (no connect() yet), cameras opened
FeedInit ==
    /\ peers = Unconnected
    /\ ok = [n \in Nodes |-> TRUE]
    /\ Blank

FeedNext ==
    \/ \E m \in FeedMsgs : Feed(m)
    \/ Process(Sink)

FeedSpec == FeedInit /\ [][FeedNext]_vars

\* messages fed to the sink and drained, local_decision asked at any time
AskNext ==
    \/ \E m \in FeedMsgs : Feed(m)
    \/ Process(Sink)
    \/ \E n \in Nodes, t \in Ticks, q \in Quorums : Ask(n, t, q)

AskSpec == FeedInit /\ [][AskNext]_vars

\* the tick the reports below are about
ReportTick == 0

Queued(n, k) == \E i \in 1 .. Len(inbox[n]) : KeyOf(inbox[n][i]) = k

\* the observation of originator f reaches the sink, once per originator
Report(f, o) ==
    /\ <<ReportTick, f>> \notin seen[Sink]
    /\ ~Queued(Sink, <<ReportTick, f>>)
    /\ Len(inbox[Sink]) < MaxInbox
    /\ Receive(Sink, Msg(ReportTick, f, o))

\* receive() takes any payload: next to what measure_and_broadcast sends, a
\* message that is marked invalid and still carries present and a count
Garbled == Obs(TRUE, MaxCount, FALSE)

Reports == Readings \cup {Garbled}

DecideNext ==
    \/ \E f \in Origins, o \in Reports : Report(f, o)
    \/ Process(Sink)

DecideSpec == FeedInit /\ [][DecideNext]_vars

(* ------------------------------ the driver loop of main() ------------- *)
\* ap.add_argument('--rounds', type=int, default=2)
DriverRounds == 2

\* process_messages calls per tick, and the local_decision call after them
DriverDrains == DriverRounds * NumNodes
DriverPhase == DriverDrains + 1

\* the tick the loop is in, and the calls it has made after its measurements
DriverTick == turn \div DriverPhase
DriverPos == turn % DriverPhase

\* for n in nodes: n.measure_and_broadcast(tick)
DriverMeasure(n) ==
    /\ DriverTick \in Ticks
    /\ DriverPos = 0
    /\ measures[n][DriverTick] = 0
    /\ \A m \in Nodes : m < n => measures[m][DriverTick] = 1
    /\ (MeasureOk(n, DriverTick) \/ MeasureFail(n, DriverTick)
            \/ MeasureBroken(n, DriverTick))

\* for _ in range(args.rounds): for n in nodes: n.process_messages()
DriverDrain ==
    /\ DriverTick \in Ticks
    /\ \A n \in Nodes : measures[n][DriverTick] = 1
    /\ DriverPos < DriverDrains
    /\ Relay(DriverPos % NumNodes)
    /\ turn' = turn + 1
    /\ UNCHANGED <<peers, ok, measures, fed, pass, reply, searchVars, otherVars>>

\* d = nodes[0].local_decision(tick, min_quorum=args.min_quorum)
DriverDecide(q) ==
    /\ DriverTick \in Ticks
    /\ DriverPos = DriverDrains
    /\ reply' = [asked |-> TRUE, node |-> 0, tick |-> DriverTick, min_quorum |-> q,
                  value |-> LocalDecision(agg[0], DriverTick, q)]
    /\ agg' = [agg EXCEPT ![0] = AfterDecision(@, DriverTick)]
    /\ turn' = turn + 1
    /\ UNCHANGED <<peers, ok, inbox, seen, measures, handled, dups, conflicts,
                   stored, gossiped, enq, got, first, fed, pass, searchVars, otherVars>>

\* n.connect(nodes) for every node; a camera may have failed to open
DriverInit ==
    /\ peers = FullMesh
    /\ ok \in [Nodes -> BOOLEAN]
    /\ Blank

DriverNext ==
    \/ \E n \in Nodes : DriverMeasure(n)
    \/ DriverDrain
    \/ \E q \in Quorums : DriverDecide(q)

DriverSpec == DriverInit /\ [][DriverNext]_vars

\* the driver loop on nodes whose cameras all opened: self.ok is True in
\* every __init__, so a node's ok flag is False only after a failed read
OpenedInit ==
    /\ peers = FullMesh
    /\ ok = [n \in Nodes |-> TRUE]
    /\ Blank

OpenedSpec == OpenedInit /\ [][DriverNext]_vars

(* ------------------------------ keyword search (src/test.py) ---------- *)
\* the term asked for
Term == "gossip"

\* count = max(0, count + 3) on a faulty node
FaultOffset == 3

QueryMsg(q, term) == [kind |-> "QUERY", query_id |-> q, term |-> term]

ResultMsg(q, f, has, count) ==
    [kind |-> "RESULT", query_id |-> q, from |-> f, has |-> has, count |-> count]

\* the default of self.aggregates
EmptyAgg == [nodes_total |-> {}, nodes_hit |-> {}, hit_count |-> 0, contributors |-> {}]

\* self.aggregates[q] = v
AggSet(a, q, v) == [x \in (DOMAIN a) \cup {q} |-> IF x = q THEN v ELSE a[x]]

\* self.aggregates[q] on the defaultdict: a missing query id gets the default
AggTouch(a, q) == IF q \in DOMAIN a THEN a ELSE AggSet(a, q, EmptyAgg)

\* contributors.add(f); nodes_total.add(f); if has: nodes_hit.add(f); hit_count += count
Contribute(a, q, f, has, count) ==
    LET old == AggTouch(a, q)[q]
    IN  AggSet(a, q,
               [nodes_total |-> old.nodes_total \cup {f},
                nodes_hit |-> IF has # 0 THEN old.nodes_hit \cup {f} ELSE old.nodes_hit,
                hit_count |-> IF has # 0 THEN old.hit_count + count ELSE old.hit_count,
                contributors |-> old.contributors \cup {f}])

\* local_keyword_stats(term)
LocalKeywordStats(n, term) ==
    LET found == IF term = Term THEN docs[n] ELSE 0
        count == IF faulty[n]
                 THEN (IF found + FaultOffset > 0 THEN found + FaultOffset ELSE 0)
                 ELSE found
    IN  [has |-> IF count > 0 THEN 1 ELSE 0, count |-> count]

\* the handler state threaded through one process_messages call on node n
QStart(n) ==
    [seen_queries |-> seen_queries[n],
     rebroadcasted_results |-> rebroadcasted_results[n],
     aggregates |-> aggregates[n],
     boxes |-> qinbox,
     did |-> did[n],
     tally |-> tally[n]]

\* what one run of handle_query past its guard adds to the history
Done(d) ==
    [computed |-> d.computed + 1, contributed |-> d.contributed + 1,
     emitted |-> d.emitted + 1, forwarded |-> d.forwarded + 1]

HandleQueryNoSeenCheck(st, n, q, term) ==
    LET stats == LocalKeywordStats(n, term)
        b1 == SendAll(st.boxes, n, qpeers[n], ResultMsg(q, n, stats.has, stats.count))
        b2 == SendAll(b1, n, qpeers[n], QueryMsg(q, term))
    IN  [st EXCEPT !.seen_queries = @ \cup {q},
                   !.aggregates = Contribute(@, q, n, stats.has, stats.count),
                   !.boxes = b2,
                   !.did = [@ EXCEPT ![q] = Done(@)],
                   !.tally = [@ EXCEPT ![<<q, n>>].tallied = @ + 1,
                                       ![<<q, n>>].gossiped = @ + 1]]

HandleQueryNoForward(st, n, q, term) ==
    IF q \in st.seen_queries THEN st
    ELSE LET stats == LocalKeywordStats(n, term)
             b1 == SendAll(st.boxes, n, qpeers[n],
                           ResultMsg(q, n, stats.has, stats.count))
         IN  [st EXCEPT !.seen_queries = @ \cup {q},
                        !.aggregates = Contribute(@, q, n, stats.has, stats.count),
                        !.boxes = b1,
                        !.did = [@ EXCEPT ![q] = Done(@)],
                        !.tally = [@ EXCEPT ![<<q, n>>].tallied = @ + 1,
                                            ![<<q, n>>].gossiped = @ + 1]]

\* handle_query(query_id, term)
HandleQuery(st, n, q, term) ==
    IF q \in st.seen_queries THEN st
    ELSE LET stats == LocalKeywordStats(n, term)
             b1 == SendAll(st.boxes, n, qpeers[n],
                           ResultMsg(q, n, stats.has, stats.count))
             b2 == SendAll(b1, n, qpeers[n], QueryMsg(q, term))
         IN  [st EXCEPT !.seen_queries = @ \cup {q},
                        !.aggregates = Contribute(@, q, n, stats.has, stats.count),
                        !.boxes = b2,
                        !.did = [@ EXCEPT ![q] = Done(@)],
                        !.tally = [@ EXCEPT ![<<q, n>>].tallied = @ + 1,
                                            ![<<q, n>>].gossiped = @ + 1]]

HandleResultNoContributorCheck(st, n, q, f, has, count) ==
    LET a0 == AggTouch(st.aggregates, q)
        s0 == [st EXCEPT !.tally = [@ EXCEPT ![<<q, f>>].arrived = @ + 1]]
        s1 == [s0 EXCEPT !.aggregates = Contribute(a0, q, f, has, count),
                         !.tally = [@ EXCEPT ![<<q, f>>].tallied = @ + 1]]
    IN  IF <<q, f>> \in s1.rebroadcasted_results THEN s1
        ELSE [s1 EXCEPT
                 !.rebroadcasted_results = @ \cup {<<q, f>>},
                 !.boxes = SendAll(@, n, qpeers[n], ResultMsg(q, f, has, count)),
                 !.tally = [@ EXCEPT ![<<q, f>>].gossiped = @ + 1]]

\* handle_result(query_id, from_node, has, count)
HandleResult(st, n, q, f, has, count) ==
    LET a0 == AggTouch(st.aggregates, q)
        s0 == [st EXCEPT !.tally = [@ EXCEPT ![<<q, f>>].arrived = @ + 1]]
    IN  IF f \in a0[q].contributors THEN [s0 EXCEPT !.aggregates = a0]
        ELSE LET s1 == [s0 EXCEPT !.aggregates = Contribute(a0, q, f, has, count),
                                  !.tally = [@ EXCEPT ![<<q, f>>].tallied = @ + 1]]
             IN  IF <<q, f>> \in s1.rebroadcasted_results THEN s1
                 ELSE [s1 EXCEPT
                          !.rebroadcasted_results = @ \cup {<<q, f>>},
                          !.boxes = SendAll(@, n, qpeers[n],
                                            ResultMsg(q, f, has, count)),
                          !.tally = [@ EXCEPT ![<<q, f>>].gossiped = @ + 1]]

\* one iteration of the while loop of process_messages
QHandle(st, n, m) ==
    IF m.kind = "QUERY" THEN HandleQuery(st, n, m.query_id, m.term)
    ELSE IF m.kind = "RESULT"
         THEN HandleResult(st, n, m.query_id, m.from, m.has, m.count)
         ELSE st

\* while not self.inbox.empty(): m = self.inbox.get(); ...
RECURSIVE QDrainLoop(_, _, _)
QDrainLoop(st, n, q) ==
    IF q = <<>> THEN st
    ELSE QDrainLoop(QHandle(st, n, Head(q)), n, Tail(q))

\* process_messages of the search variant on a node that has messages queued
SearchProcess(n) ==
    /\ qinbox[n] # <<>>
    /\ \E s \in {QDrainLoop([QStart(n) EXCEPT !.boxes = Taken(@, n)], n, qinbox[n])} :
           /\ qinbox' = s.boxes
           /\ seen_queries' = [seen_queries EXCEPT ![n] = s.seen_queries]
           /\ rebroadcasted_results' =
                  [rebroadcasted_results EXCEPT ![n] = s.rebroadcasted_results]
           /\ aggregates' = [aggregates EXCEPT ![n] = s.aggregates]
           /\ did' = [did EXCEPT ![n] = s.did]
           /\ tally' = [tally EXCEPT ![n] = s.tally]
    /\ UNCHANGED <<qpeers, faulty, docs, injected>>
    /\ UNCHANGED <<cameraVars, otherVars>>

\* initiator.receive(Message('QUERY', ...)): a query handed to a node from
\* outside, at most MaxInject times in a run
Inject(n, q) ==
    /\ injected < MaxInject
    /\ qinbox' = [qinbox EXCEPT ![n] = Append(@, QueryMsg(q, Term))]
    /\ injected' = injected + 1
    /\ UNCHANGED <<qpeers, faulty, docs, seen_queries, rebroadcasted_results,
                   aggregates, did, tally>>
    /\ UNCHANGED <<cameraVars, otherVars>>

\* hit_ratio_threshold: float = 0.3, as the fraction 3/10; other values a
\* caller may pass
DefaultThreshold == <<3, 10>>
Thresholds == {<<0, 1>>, DefaultThreshold, <<1, 2>>, <<1, 1>>}

\* min_contributors: int = 1, and what else a caller may pass
MinContributors == 0 .. (NumNodes + 1)

\* hit_ratio >= hit_ratio_threshold, both sides as fractions
RatioAtLeast(hit_nodes, total, thr) == hit_nodes * thr[2] >= thr[1] * total

\* local_decision(query_id, min_contributors, hit_ratio_threshold) on the
\* aggregates a
SearchDecision(a, q, min_contributors, thr) ==
    IF q \notin DOMAIN a THEN NoDecision
    ELSE LET total == Cardinality(a[q].contributors)
         IN  IF total < min_contributors THEN NoDecision
             ELSE LET hit_nodes == Cardinality(a[q].nodes_hit)
                      most == IF total > 1 THEN total ELSE 1
                  IN  [decided |-> TRUE,
                       contributors |-> total,
                       hit_nodes |-> hit_nodes,
                       hit_ratio |-> Ratio(hit_nodes, most),
                       total_hits |-> a[q].hit_count,
                       decision |-> IF RatioAtLeast(hit_nodes, most, thr)
                                    THEN "PRESENT" ELSE "RARE/ABSENT"]

SearchGraphs == {FullMesh, Ring}

\* camera nodes constructed and left alone
CameraIdle ==
    /\ peers = Unconnected
    /\ ok = [n \in Nodes |-> TRUE]
    /\ BlankOn(Nodes, Keys)

\* no node faulty, or the last one
FaultySets == {[n \in Nodes |-> FALSE], [n \in Nodes |-> n = NumNodes - 1]}

\* simulate(): nodes with their documents, some of them faulty, connected
SearchInit ==
    /\ qpeers \in SearchGraphs
    /\ faulty \in FaultySets
    /\ docs \in [Nodes -> 0 .. MaxWords]
    /\ SearchBlank
    /\ CameraIdle
    /\ OtherIdle

SearchNext ==
    \/ \E n \in Nodes, q \in QueryIds : Inject(n, q)
    \/ \E n \in Nodes : SearchProcess(n)

SearchSpec == SearchInit /\ [][SearchNext]_vars

(* ------------------------------ the voting scripts -------------------- *)
\* calls of vote, measure and receive made from outside in a run
MaxCast == 4

\* vote and measure calls in a run of little_update.py or temperature.py
MaxVotes == 2

\* number = random.randint(1, 100): an odd and an even one
Numbers == {3, 4}

\* the true numbers little_update.py classifies: at a class border and the
\* one simulate() uses
TrueNumbers == {33, 42}

\* random.randint(-3, 3)
NoiseSpan == 3
Noise == (0 - NoiseSpan) .. NoiseSpan

\* if noisy_number <= 33: LOW; elif noisy_number <= 66: MEDIUM; else: HIGH
LowMax == 33
MediumMax == 66
Category(noisy_number) ==
    IF noisy_number <= LowMax THEN "LOW"
    ELSE IF noisy_number <= MediumMax THEN "MEDIUM" ELSE "HIGH"

\* true_temp = 28; reading_id = "temp_001"; noisy_temp = true_temp + 20
TrueTemp == 28
ReadingIds == {"temp_001"}
SensorOffset == 20

\* the caller of receive() when it is not a node
Outsider == 0 - 1

\* a (number, vote) message; by: the node whose vote or measure call made it
VoteMsg(x, v, f) == [number |-> x, vote |-> v, by |-> f]

\* self.known_numbers.setdefault(number, []).append(vote)
KnownAppend(k, x, e) ==
    [y \in (DOMAIN k) \cup {x} |->
        IF y = x THEN Append(IF x \in DOMAIN k THEN k[x] ELSE <<>>, e) ELSE k[y]]

\* while not self.inbox.empty(): number, vote = self.inbox.get(); ...append(vote)
RECURSIVE TallyDrain(_, _)
TallyDrain(k, q) ==
    IF q = <<>> THEN k
    ELSE TallyDrain(KnownAppend(k, Head(q).number, [vote |-> Head(q).vote, by |-> Head(q).by]),
                    Tail(q))

\* process_messages, the same in the three scripts
ProcessVotes(n) ==
    /\ vinbox[n] # <<>>
    /\ known' = [known EXCEPT ![n] = TallyDrain(@, vinbox[n])]
    /\ vinbox' = [vinbox EXCEPT ![n] = <<>>]
    /\ UNCHANGED <<script, vpeers, vfaulty, cast>>
    /\ UNCHANGED <<cameraVars, searchVars, wordVars>>

\* setdefault(number, []).append(vote); self.gossip((number, vote))
Cast(n, x, v) ==
    /\ cast < MaxCast
    /\ cast' = cast + 1
    /\ known' = [known EXCEPT ![n] = KnownAppend(@, x, [vote |-> v, by |-> n])]
    /\ vinbox' = SendAll(vinbox, n, vpeers[n], VoteMsg(x, v, n))
    /\ UNCHANGED <<script, vpeers, vfaulty>>
    /\ UNCHANGED <<cameraVars, searchVars, wordVars>>

\* simple_version.py: vote = 1 if number % 2 == 0 else 0
SimpleVote(n, x) ==
    /\ script = "simple_version"
    /\ Cast(n, x, IF x % 2 = 0 THEN 1 ELSE 0)

SimpleProcess(n) ==
    /\ script = "simple_version"
    /\ ProcessVotes(n)

\* receive((number, vote)) called on a node from outside
SimpleReceive(n, x, v) ==
    /\ script = "simple_version"
    /\ cast < MaxCast
    /\ cast' = cast + 1
    /\ vinbox' = [vinbox EXCEPT ![n] = Append(@, VoteMsg(x, v, Outsider))]
    /\ UNCHANGED <<script, vpeers, vfaulty, known>>
    /\ UNCHANGED <<cameraVars, searchVars, wordVars>>

\* votes.count(v)
CountOf(votes, v) == Cardinality({i \in 1 .. Len(votes) : votes[i].vote = v})

\* simple_version.py: check_consensus(number, threshold); "None" for None
CheckConsensus(k, number, threshold) ==
    IF number \notin DOMAIN k THEN "None"
    ELSE LET votes == k[number]
         IN  IF Len(votes) >= threshold
             THEN LET majority == IF CountOf(votes, 1) > CountOf(votes, 0) THEN 1 ELSE 0
                  IN  IF majority = 1 THEN "even" ELSE "odd"
             ELSE "None"

\* little_update.py: the vote is the class of the noisy number
LittleVote(n, x) ==
    /\ script = "little_update"
    /\ cast < MaxVotes
    /\ \E d \in Noise : Cast(n, x, Category(x + d))

LittleProcess(n) ==
    /\ script = "little_update"
    /\ ProcessVotes(n)

\* temperature.py: measure(reading_id, true_temp)
TempMeasure(n, r) ==
    /\ script = "temperature"
    /\ cast < MaxVotes
    /\ \E d \in (IF vfaulty[n] THEN {SensorOffset} ELSE Noise) : Cast(n, r, TrueTemp + d)

TempProcess(n) ==
    /\ script = "temperature"
    /\ ProcessVotes(n)

\* simulate(): for node in nodes: node.peers = nodes
VotingInit ==
    /\ vpeers = FullMesh
    /\ vfaulty \in (IF script = "temperature" THEN FaultySets ELSE {[n \in Nodes |-> FALSE]})
    /\ TallyBlank
    /\ CameraIdle
    /\ SearchIdle
    /\ WordIdle

SimpleNext ==
    \/ \E n \in Nodes, x \in Numbers : SimpleVote(n, x)
    \/ \E x \in Numbers, v \in {0, 1} : SimpleReceive(Sink, x, v)
    \/ \E n \in Nodes : SimpleProcess(n)

SimpleInit ==
    /\ script = "simple_version"
    /\ VotingInit

SimpleSpec == SimpleInit /\ [][SimpleNext]_vars

TallyNext ==
    \/ \E n \in Nodes, x \in TrueNumbers : LittleVote(n, x)
    \/ \E n \in Nodes : LittleProcess(n)
    \/ \E n \in Nodes, r \in ReadingIds : TempMeasure(n, r)
    \/ \E n \in Nodes : TempProcess(n)

TallyInit ==
    /\ script \in {"little_update", "temperature"}
    /\ VotingInit

TallySpec == TallyInit /\ [][TallyNext]_vars

(* ------------------------------ the word-count script (src/test.py) --- *)
\* simulate(..., query_term="clip", ...)
WordTerm == "clip"

\* count += 3 on a faulty node
WordBoost == 3

\* ("QUERY", query_term) and ("RESULT", (query_term, sender_id, count))
WordQuery(term) == [type |-> "QUERY", payload |-> term]
WordResult(term, f, count) == [type |-> "RESULT", payload |-> <<term, f, count>>]

\* the elements of seen_queries: a term, or a (term, sender_id) pair
SeenTerm(term) == [kind |-> "term", term |-> term, sender |-> Outsider]
SeenPair(term, f) == [kind |-> "pair", term |-> term, sender |-> f]

\* message in peer.seen_queries: the message is a (msg_type, payload) pair, so
\* it can only equal a (term, sender_id) pair
MessageIn(m, s) ==
    \E x \in s : x.kind = "pair" /\ x.term = m.type /\ x.sender = m.payload

\* for peer in self.peers: if peer.node_id != self.node_id:
\*     if message not in peer.seen_queries: peer.receive(message)
RECURSIVE WordSend(_, _, _, _)
WordSend(boxes, n, ps, m) ==
    IF ps = <<>> THEN boxes
    ELSE LET p == Head(ps)
             nb == IF p # n /\ ~MessageIn(m, word_seen[p])
                   THEN [boxes EXCEPT ![p] = Append(@, m)] ELSE boxes
         IN  WordSend(nb, n, Tail(ps), m)

\* self.local_doc.count(query_term), plus 3 on a faulty node
WordCount(n, term) ==
    (IF term = WordTerm THEN local_doc[n] ELSE 0) + (IF wfaulty[n] THEN WordBoost ELSE 0)

\* self.results[term] = v
ResultsSet(r, term, v) == [x \in (DOMAIN r) \cup {term} |-> IF x = term THEN v ELSE r[x]]

\* the handler state threaded through one process_messages call on node n
WordStart(n) ==
    [seen |-> word_seen[n], results |-> results[n], outbox |-> <<>>, added |-> added[n]]

\* one iteration of the while loop of process_messages
WordHandle(st, n, m) ==
    IF m.type = "QUERY"
    THEN LET query_term == m.payload
         IN  IF SeenTerm(query_term) \in st.seen THEN st
             ELSE LET count == WordCount(n, query_term)
                  IN  [st EXCEPT
                          !.seen = @ \cup {SeenTerm(query_term)},
                          !.results = ResultsSet(@, query_term, count),
                          !.added = [@ EXCEPT ![n] = @ + 1],
                          !.outbox = @ \o <<WordResult(query_term, n, count),
                                            WordQuery(query_term)>>]
    ELSE IF m.type = "RESULT"
    THEN LET query_term == m.payload[1]
             sender_id == m.payload[2]
             count == m.payload[3]
         IN  IF SeenPair(query_term, sender_id) \in st.seen THEN st
             ELSE LET r0 == IF query_term \in DOMAIN st.results THEN st.results
                            ELSE ResultsSet(st.results, query_term, 0)
                  IN  [st EXCEPT
                          !.seen = @ \cup {SeenPair(query_term, sender_id)},
                          !.results = ResultsSet(r0, query_term, r0[query_term] + count),
                          !.added = [@ EXCEPT ![sender_id] = @ + 1],
                          !.outbox = Append(@, m)]
    ELSE st

\* while not self.inbox.empty(): msg_type, payload = self.inbox.get(); ...
RECURSIVE WordDrainLoop(_, _, _)
WordDrainLoop(st, n, q) ==
    IF q = <<>> THEN st
    ELSE WordDrainLoop(WordHandle(st, n, Head(q)), n, Tail(q))

\* for m in outbox: self.gossip(m)
RECURSIVE WordGossipAll(_, _, _)
WordGossipAll(boxes, n, outbox) ==
    IF outbox = <<>> THEN boxes
    ELSE WordGossipAll(WordSend(boxes, n, wpeers[n], Head(outbox)), n, Tail(outbox))

\* process_messages of the word-count script on a node with messages queued
WordProcess(n) ==
    /\ winbox[n] # <<>>
    /\ \E st \in {WordDrainLoop(WordStart(n), n, winbox[n])} :
           /\ word_seen' = [word_seen EXCEPT ![n] = st.seen]
           /\ results' = [results EXCEPT ![n] = st.results]
           /\ added' = [added EXCEPT ![n] = st.added]
           /\ winbox' = WordGossipAll([winbox EXCEPT ![n] = <<>>], n, st.outbox)
    /\ UNCHANGED <<wpeers, wfaulty, local_doc, asked>>
    /\ UNCHANGED <<cameraVars, searchVars, tallyVars>>

\* nodes[0].receive(("QUERY", query_term))
Bootstrap ==
    /\ ~asked
    /\ asked' = TRUE
    /\ winbox' = [winbox EXCEPT ![0] = Append(@, WordQuery(WordTerm))]
    /\ UNCHANGED <<wpeers, wfaulty, local_doc, word_seen, results, added>>
    /\ UNCHANGED <<cameraVars, searchVars, tallyVars>>

\* simulate(): nodes with their documents, any of them faulty, full mesh
WordInit ==
    /\ wpeers = FullMesh
    /\ wfaulty \in [Nodes -> BOOLEAN]
    /\ local_doc \in [Nodes -> 0 .. MaxWords]
    /\ WordBlank
    /\ CameraIdle
    /\ SearchIdle
    /\ TallyIdle

WordNext ==
    \/ Bootstrap
    \/ \E n \in Nodes : WordProcess(n)

WordSpec == WordInit /\ [][WordNext]_vars

(* ====================================================================== *)
(* Claims                                                                 *)
(* ====================================================================== *)
\* what a node holds for a tick, read off the aggregate entry by entry
EntriesOf(n, t) == {f \in Origins : HasEntry(agg[n], t, f)}
ValidOf(n, t) == {f \in EntriesOf(n, t) : agg[n][t][f].valid}
YesOf(n, t) == {f \in ValidOf(n, t) : agg[n][t][f].present}
NoOf(n, t) == {f \in ValidOf(n, t) : ~agg[n][t][f].present}
Decision(n, t, q) == LocalDecision(agg[n], t, q)

\* C1: whatever sequence of measure_and_broadcast and process_messages calls
\* runs and however many copies of a key reach a node, the node stores the
\* key at most once and gossips it at most once, and exactly once as soon as
\* it has measured it or taken a message with it out of its inbox.
C1_StoredAndGossipedOnce ==
    \A n \in Nodes, k \in Keys :
        /\ stored[n][k] <= 1
        /\ gossiped[n][k] <= 1
        /\ k \in handled[n] =>
               /\ stored[n][k] = 1
               /\ gossiped[n][k] = 1
               /\ HasEntry(agg[n], k[1], k[2])

\* a node measured the same tick twice and got its own observation back from
\* a relay, and a peer got that observation by two paths
C1_Witness ==
    \E n, p \in Nodes, t \in Ticks :
        /\ p # n
        /\ measures[n][t] = 2
        /\ <<t, n>> \in dups[n]
        /\ <<t, n>> \in dups[p]
        /\ stored[n][<<t, n>>] = 1 /\ gossiped[n][<<t, n>>] = 1
        /\ stored[p][<<t, n>>] = 1 /\ gossiped[p][<<t, n>>] = 1

\* C2: every entry of a node's aggregate is the first observation the node
\* accepted for its (tick, originator) and was written once: a later message
\* with the same key and other content does not replace it.
C2_EntryIsFirstAccepted ==
    \A n \in Nodes, t \in Ticks, f \in Origins :
        HasEntry(agg[n], t, f) =>
            /\ <<t, f>> \in DOMAIN first[n]
            /\ agg[n][t][f] = first[n][<<t, f>>]
            /\ stored[n][<<t, f>>] = 1

\* the sink has drained a message that contradicts an entry it holds
C2_Witness ==
    /\ inbox[Sink] = <<>>
    /\ \E k \in conflicts[Sink] : HasEntry(agg[Sink], k[1], k[2])

\* nodes reachable from n along peer lists
RECURSIVE ReachFrom(_, _)
ReachFrom(S, i) ==
    IF i = 0 THEN S
    ELSE ReachFrom(S \cup {p \in Nodes : \E m \in S :
                                 \E j \in 1 .. Len(peers[m]) : peers[m][j] = p}, i - 1)

Connected == \A n \in Nodes : ReachFrom({n}, NumNodes) = Nodes

AllMeasured(t) == \A n \in Nodes : measures[n][t] >= 1

Quiet == \A n \in Nodes : inbox[n] = <<>>

\* C5: in a connected peer graph in which every node measured the tick, once
\* every inbox is empty all nodes hold the same aggregate for the tick, with
\* the observation of every node in it, and local_decision agrees at all
\* nodes for every min_quorum.
C5_SaturatedNodesAgree ==
    \A t \in Ticks :
        (Connected /\ AllMeasured(t) /\ Quiet) =>
            \A n, m \in Nodes :
                /\ t \in DOMAIN agg[n]
                /\ DOMAIN agg[n][t] = Nodes
                /\ agg[n][t] = agg[m][t]
                /\ \A q \in Quorums : Decision(n, t, q) = Decision(m, t, q)

\* a saturated path graph (not a mesh) whose nodes decide with mixed readings
C5_Witness ==
    /\ peers = Line
    /\ AllMeasured(RoundTick)
    /\ Quiet
    /\ Cardinality(YesOf(0, RoundTick)) = 1
    /\ Cardinality(ValidOf(0, RoundTick)) = 2
    /\ Decision(NumNodes - 1, RoundTick, 2).decided

\* every node has accepted key k and no copy of it is queued anywhere
Saturated(k) == \A n \in Nodes : k \in seen[n] /\ ~Queued(n, k)

Sends(k) == SumOver([n \in Nodes |-> enq[n][k]], Nodes)

\* C6: in the full mesh the originator of an observation makes exactly
\* NumNodes - 1 sends when it measures, and once the key is saturated no node
\* sends it again, whatever is measured afterwards.
C6_MeshSendsStopAtSaturation ==
    /\ [](peers = FullMesh =>
            \A n \in Nodes, t \in Ticks :
                measures[n][t] >= 1 =>
                    /\ enq[n][<<t, n>>] = NumNodes - 1
                    /\ gossiped[n][<<t, n>>] = 1)
    /\ [][peers = FullMesh =>
            \A k \in Keys :
                Saturated(k) =>
                    /\ Saturated(k)'
                    /\ \A n \in Nodes : enq'[n][k] = enq[n][k]]_vars

\* one observation flooded through the mesh to saturation, nothing else sent
C6_Witness ==
    /\ peers = FullMesh
    /\ Quiet
    /\ \E k \in Keys :
           /\ Saturated(k)
           /\ enq[k[2]][k] = NumNodes - 1
           /\ \A j \in Keys : j # k => Sends(j) = 0

\* C7: in every peer graph, cycles and the full mesh included, with finitely
\* many measurements and every node's process_messages scheduled fairly, the
\* inboxes eventually are all empty and stay empty.
C7_FloodingDiesOut == <>[]Quiet

\* a directed cycle in which two observations went round and died out
C7_Witness ==
    /\ peers = Ring
    /\ Quiet
    /\ MeasureCalls = MaxMeasure
    /\ \E k, j \in Keys : k # j /\ Saturated(k) /\ Saturated(j)

\* C10: when two drain passes of one node are interleaved and both handle a
\* message with the same key, only one accepts it: the key is stored once and
\* rebroadcast once.
C10_OnePassAccepts ==
    \A k \in Keys : stored[Sink][k] <= 1 /\ gossiped[Sink][k] <= 1

\* C3: local_decision returns no decision exactly when the number of valid
\* entries of the tick is below min_quorum or is zero; that covers ticks whose
\* entries are all invalid (for every min_quorum, also <= 0) and ticks
\* without any entry.
C3_NoDecisionIffQuorumMissed ==
    \A n \in Nodes, t \in Ticks :
        LET valid == Cardinality(ValidOf(n, t))
        IN  \A q \in Quorums :
                (Decision(n, t, q) = NoDecision) <=> (valid < q \/ valid = 0)

\* one valid (present) entry and four invalid ones: no decision at quorum 2
\* although quorum 1 decides
C3_Witness ==
    /\ Cardinality(EntriesOf(Sink, ReportTick)) = 5
    /\ Cardinality(YesOf(Sink, ReportTick)) = 1
    /\ Cardinality(ValidOf(Sink, ReportTick)) = 1
    /\ Decision(Sink, ReportTick, 2) = NoDecision
    /\ Decision(Sink, ReportTick, 1) # NoDecision

\* C4: with quorum met, majority is TRUE exactly when the valid contributors
\* reporting present are at least as many as those reporting absent, so a tie
\* gives PRESENT.
C4_MajorityIffYesAtLeastNo ==
    \A n \in Nodes, t \in Ticks :
        LET yes == Cardinality(YesOf(n, t))
            no == Cardinality(NoOf(n, t))
        IN  \A q \in Quorums :
                LET d == Decision(n, t, q)
                IN  d.decided => (d.majority <=> yes >= no)

\* two valid contributors, one present and one absent: majority TRUE
C4_Witness ==
    /\ Cardinality(YesOf(Sink, ReportTick)) = 1
    /\ Cardinality(NoOf(Sink, ReportTick)) = 1
    /\ Decision(Sink, ReportTick, 1).decided
    /\ Decision(Sink, ReportTick, 1).majority

\* a step that only adds entries to the sink's aggregate of the tick, all of
\* them invalid
AddsOnlyInvalid(n, t) ==
    /\ t \in DOMAIN agg'[n]
    /\ DOMAIN agg'[n][t] # EntriesOf(n, t)
    /\ \A f \in DOMAIN agg'[n][t] :
           IF f \in EntriesOf(n, t) THEN agg'[n][t][f] = agg[n][t][f]
           ELSE ~agg'[n][t][f].valid

\* C8: when the aggregate of a tick yields a decision, a drain that adds any
\* number of entries with valid = FALSE leaves the whole decision (majority,
\* ratio, contributors, total_count) as it was.
C8_InvalidEntriesChangeNothing ==
    [][\A n \in Nodes, t \in Ticks, q \in Quorums :
          (Decision(n, t, q).decided /\ AddsOnlyInvalid(n, t))
              => LocalDecision(agg'[n], t, q) = Decision(n, t, q)]_vars

\* a decided aggregate that holds two invalid entries next to valid ones
C8_Witness ==
    /\ inbox[Sink] = <<>>
    /\ Cardinality(EntriesOf(Sink, ReportTick) \ ValidOf(Sink, ReportTick)) >= 2
    /\ Cardinality(YesOf(Sink, ReportTick)) = 1
    /\ Cardinality(NoOf(Sink, ReportTick)) = 0
    /\ Decision(Sink, ReportTick, 1).decided

\* C9: for a fixed aggregate, no decision at min_quorum k implies no decision
\* at k + 1, and when both decide the decisions are equal.
C9_QuorumMonotone ==
    \A n \in Nodes, t \in Ticks, k \in Quorums :
        LET atK == Decision(n, t, k)
            above == Decision(n, t, k + 1)
        IN  /\ atK = NoDecision => above = NoDecision
            /\ (atK.decided /\ above.decided) => atK = above

\* three valid contributors: quorums 2 and 3 give the same decision, 4 none
C9_Witness ==
    /\ Cardinality(ValidOf(Sink, ReportTick)) = 3
    /\ Decision(Sink, ReportTick, 2).decided
    /\ Decision(Sink, ReportTick, 3) = Decision(Sink, ReportTick, 2)
    /\ Decision(Sink, ReportTick, 4) = NoDecision

\* observation messages that name a node
ObsMsgs == {Msg(t, f, o) : t \in Ticks, f \in Nodes, o \in Readings}

IsPeer(n, p) == \E i \in 1 .. Len(peers[n]) : peers[n][i] = p

\* peers of n that gossip() sends to
PeersOf(n) == {p \in Nodes \ {n} : IsPeer(n, p)}

\* the step is a process_messages call of n that found messages
Drains(n) == inbox[n] # <<>> /\ inbox'[n] = <<>>

\* the step is a measure_and_broadcast call of n
Measures(n, t) == measures'[n][t] # measures[n][t]

\* keys of the observation messages queued at n
QueuedKeys(n) ==
    {KeyOf(inbox[n][i]) : i \in {j \in 1 .. Len(inbox[n]) : inbox[n][j].kind = "OBS"}}

\* C11: a drain in which every message carries a key the node has seen
\* changes neither seen nor the aggregate of any node, gossips nothing and
\* leaves the other inboxes alone; handling an observation message twice
\* leaves seen, aggregate, outbox and the store and gossip counts as handling
\* it once.
C11_SeenKeyDrainIsNoOp ==
    /\ [](\A n \in Nodes, m \in ObsMsgs :
              LET once == HandleMsg(Start(n), n, m)
                  twice == HandleMsg(once, n, m)
              IN  /\ twice.seen = once.seen
                  /\ twice.agg = once.agg
                  /\ twice.outbox = once.outbox
                  /\ twice.stored = once.stored)
    /\ [][\A n \in Nodes :
              (Drains(n) /\ QueuedKeys(n) \subseteq seen[n]) =>
                  /\ seen' = seen
                  /\ agg' = agg
                  /\ gossiped' = gossiped
                  /\ enq' = enq
                  /\ stored' = stored
                  /\ \A p \in Nodes \ {n} : inbox'[p] = inbox[p]]_vars

\* a node has drained a copy of a key it had stored and relayed before
C11_Witness ==
    \E n \in Nodes, k \in Keys :
        /\ inbox[n] = <<>>
        /\ k \in dups[n]
        /\ k[2] # n
        /\ stored[n][k] = 1
        /\ gossiped[n][k] = 1

\* C12: a measure_and_broadcast whose camera cannot be read records
\* (FALSE, 0, FALSE) for (tick, node) unless the key is already seen, and sends
\* it to every peer; every invalid entry any node holds was stored once and
\* gossiped once to all of the holder's peers, as a valid one is.
C12_FailedReadIsPublished ==
    /\ [](\A n \in Nodes, t \in Ticks, f \in Nodes :
              (HasEntry(agg[n], t, f) /\ ~agg[n][t][f].valid) =>
                  /\ agg[n][t][f] = Invalid
                  /\ <<t, f>> \in seen[n]
                  /\ stored[n][<<t, f>>] = 1
                  /\ gossiped[n][<<t, f>>] = 1
                  /\ enq[n][<<t, f>>] = Cardinality(PeersOf(n)))
    /\ [][\A n \in Nodes, t \in Ticks :
              (Measures(n, t) /\ ~ok'[n]) =>
                  /\ <<t, n>> \in seen'[n]
                  /\ <<t, n>> \notin seen[n] =>
                         /\ HasEntry(agg'[n], t, n)
                         /\ agg'[n][t][n] = Invalid
                         /\ \A p \in Nodes :
                                inbox'[p] = IF p \in PeersOf(n)
                                            THEN Append(inbox[p], Msg(t, n, Invalid))
                                            ELSE inbox[p]]_vars

\* the invalid observation of a broken node is held and was relayed by a peer
C12_Witness ==
    \E n \in Nodes, p \in Nodes, t \in Ticks :
        /\ p # n
        /\ ~ok[n]
        /\ HasEntry(agg[p], t, n)
        /\ agg[p][t][n] = Invalid
        /\ gossiped[p][<<t, n>>] = 1
        /\ enq[p][<<t, n>>] >= 1

\* the first message of queue q that carries key k
FirstWith(q, k) ==
    q[CHOOSE i \in 1 .. Len(q) :
          /\ q[i].kind = "OBS" /\ KeyOf(q[i]) = k
          /\ \A j \in 1 .. (i - 1) : q[j].kind = "OBS" => KeyOf(q[j]) # k]

\* C13: no step drops or rewrites an entry a node holds; a drain stores every
\* queued key (tick, originator) not yet seen, whatever the node holds of the
\* same originator for other ticks, and a measurement stores its own key
\* unless that very key is seen.
C13_KeyIsTickAndOriginator ==
    [][\A n \in Nodes :
          /\ \A t \in Ticks, f \in Nodes :
                 HasEntry(agg[n], t, f) =>
                     HasEntry(agg'[n], t, f) /\ agg'[n][t][f] = agg[n][t][f]
          /\ Drains(n) =>
                 \A k \in QueuedKeys(n) \ seen[n] :
                     /\ HasEntry(agg'[n], k[1], k[2])
                     /\ agg'[n][k[1]][k[2]] = Payload(FirstWith(inbox[n], k))
          /\ \A t \in Ticks :
                 (Measures(n, t) /\ <<t, n>> \notin seen[n]) =>
                     HasEntry(agg'[n], t, n)]_vars

\* a node holds different observations of one originator for two ticks
C13_Witness ==
    \E n \in Nodes, f \in Nodes, t \in Ticks, u \in Ticks :
        /\ f # n /\ t # u
        /\ HasEntry(agg[n], t, f)
        /\ HasEntry(agg[n], u, f)
        /\ agg[n][t][f] # agg[n][u][f]
        /\ stored[n][<<t, f>>] = 1
        /\ stored[n][<<u, f>>] = 1

\* C15: gossip(m) on node n appends m once to the inbox of each peer of n
\* other than n and touches no other inbox, n's own included; all receive
\* calls are made inside the call, so each gossip call of n accounts for one
\* enqueue per such peer.
C15_GossipReachesEachPeerOnce ==
    /\ \A n \in Nodes, m \in ObsMsgs :
           LET nb == SendAll(inbox, n, peers[n], m)
           IN  \A p \in Nodes :
                   nb[p] = IF p \in PeersOf(n) THEN Append(inbox[p], m) ELSE inbox[p]
    /\ \A n \in Nodes, k \in Keys :
           enq[n][k] = gossiped[n][k] * Cardinality(PeersOf(n))

\* in the mesh, whose peer lists hold the node itself, a node has measured
\* and each other node has exactly that message queued
C15_Witness ==
    /\ peers = FullMesh
    /\ \E n \in Nodes, t \in Ticks :
           /\ measures[n][t] = 1
           /\ gossiped[n][<<t, n>>] = 1
           /\ inbox[n] = <<>>
           /\ \A p \in Nodes \ {n} :
                  Len(inbox[p]) = 1 /\ KeyOf(inbox[p][1]) = <<t, n>>

\* C17: a measure_and_broadcast or process_messages step of node n leaves
\* seen, aggregate and camera flag of every other node as they were and
\* changes no inbox other than n's own and those of n's peers.
C17_StepTouchesOwnStateOnly ==
    [][\A n \in Nodes :
          (Drains(n) \/ \E t \in Ticks : Measures(n, t)) =>
              \A p \in Nodes \ {n} :
                  /\ seen'[p] = seen[p]
                  /\ agg'[p] = agg[p]
                  /\ ok'[p] = ok[p]
                  /\ inbox'[p] # inbox[p] => p \in PeersOf(n)]_vars

\* a node has accepted a key that a peer of it still has queued and unseen
C17_Witness ==
    \E n \in Nodes, p \in Nodes, k \in Keys :
        /\ p \in PeersOf(n)
        /\ k[2] # n
        /\ k \in seen[n]
        /\ gossiped[n][k] = 1
        /\ k \notin seen[p]
        /\ Queued(p, k)

\* C19: every step leaves each node's seen set a superset of what it was.
C19_SeenOnlyGrows ==
    [][\A n \in Nodes : seen[n] \subseteq seen'[n]]_vars

\* a node that holds two keys has drained a copy of one of them
C19_Witness ==
    \E n \in Nodes :
        /\ Cardinality(seen[n]) >= 2
        /\ dups[n] # {}
        /\ inbox[n] = <<>>

\* sum of count over the valid entries, taken count value by count value
CountOfValid(n, t) ==
    SumOver([c \in 0 .. MaxCount |->
                c * Cardinality({f \in ValidOf(n, t) : agg[n][t][f].count = c})],
            0 .. MaxCount)

\* C16: a decision reports contributors = number of valid entries, ratio =
\* valid entries with present / contributors, and total_count = sum of
\* count over the valid entries alone.
C16_DecisionFigures ==
    \A n \in Nodes, t \in Ticks :
        LET valid == Cardinality(ValidOf(n, t))
            yes == Cardinality(YesOf(n, t))
            total == CountOfValid(n, t)
        IN  \A q \in Quorums :
                LET d == Decision(n, t, q)
                IN  d.decided =>
                        /\ d.contributors = valid
                        /\ d.ratio[2] > 0
                        /\ d.ratio[1] * valid = yes * d.ratio[2]
                        /\ d.total_count = total

\* five valid entries, three of them present, min_quorum 1: contributors 5,
\* ratio 3/5, majority TRUE
C16_Witness ==
    /\ EntriesOf(Sink, ReportTick) = ValidOf(Sink, ReportTick)
    /\ Cardinality(ValidOf(Sink, ReportTick)) = 5
    /\ Cardinality(YesOf(Sink, ReportTick)) = 3
    /\ Decision(Sink, ReportTick, 1).decided
    /\ Decision(Sink, ReportTick, 1).contributors = 5
    /\ Decision(Sink, ReportTick, 1).ratio = <<3, 5>>
    /\ Decision(Sink, ReportTick, 1).majority
    /\ Decision(Sink, ReportTick, 1).total_count = 3 * MaxCount

\* C14: on the cycle of CycleSize nodes, once the schedule has run
\* CycleRounds rounds (every node drained once per round, in node order)
\* after node 0 measured a tick, every node holds node 0's observation for
\* that tick.
C14_CycleReachedInThreeRounds ==
    turn = CycleRounds * CycleSize =>
        \E t \in Ticks :
            /\ measures[0][t] = 1
            /\ \A n \in CycleNodes :
                   HasEntry(agg[n], t, 0) /\ agg[n][t][0] = agg[0][t][0]

\* the three rounds are over and the node opposite node 0 holds and has
\* relayed the observation
C14_Witness ==
    /\ turn = CycleRounds * CycleSize
    /\ \E t \in Ticks :
           /\ measures[0][t] = 1
           /\ HasEntry(agg[CycleSize \div 2], t, 0)
           /\ gossiped[CycleSize \div 2][<<t, 0>>] = 1
           /\ \A n \in CycleNodes : <<t, 0>> \in seen[n]

\* C18: a local_decision call changes no seen set, no aggregate (a tick
\* without data gets no entry) and no inbox, and the value it returned is
\* the value a second call made right after it returns.
C18_DecisionIsReadOnly ==
    [][reply' # reply =>
          /\ seen' = seen
          /\ agg' = agg
          /\ inbox' = inbox
          /\ reply'.tick \notin DOMAIN agg[reply'.node]
                 => reply'.tick \notin DOMAIN agg'[reply'.node]
          /\ reply'.value =
                 LocalDecision(agg[reply'.node], reply'.tick, reply'.min_quorum)
          /\ reply'.value =
                 LocalDecision(agg'[reply'.node], reply'.tick, reply'.min_quorum)]_vars

\* the sink, holding data for one tick and a queued message, was asked about
\* a tick it has no data for
C18_Witness ==
    /\ reply.asked
    /\ reply.node = Sink
    /\ agg[Sink] # <<>>
    /\ inbox[Sink] # <<>>
    /\ reply.tick \notin DOMAIN agg[Sink]
    /\ reply.value = NoDecision

\* C20: whatever QUERY copies a node of the search variant receives, for
\* each query id it computes its local statistics, adds its own contribution,
\* emits its own RESULT and forwards the QUERY at most once, and exactly once
\* as soon as it has seen the query.
C20_QueryHandledOnce ==
    \A n \in Nodes, q \in QueryIds :
        /\ did[n][q].computed <= 1
        /\ did[n][q].contributed <= 1
        /\ did[n][q].emitted <= 1
        /\ did[n][q].forwarded <= 1
        /\ q \in seen_queries[n] <=> did[n][q] = Done(NoneDone)
        /\ q \in seen_queries[n] =>
               /\ q \in DOMAIN aggregates[n]
               /\ n \in aggregates[n][q].contributors

\* a query injected twice has flooded the network and every inbox is empty
C20_Witness ==
    /\ injected = 2
    /\ \A n \in Nodes : qinbox[n] = <<>>
    /\ \E q \in QueryIds :
           /\ \A n \in Nodes : did[n][q] = Done(NoneDone)
           /\ \A r \in QueryIds \ {q} : \A n \in Nodes : did[n][r] = NoneDone

\* C25: relays forward observations unchanged: every entry a node holds for
\* (tick, f), and every queued message with that key, carries the triple node
\* f recorded when it measured the tick, so two nodes holding an entry for
\* the same key hold the same content.
C25_RelaysForwardUnchanged ==
    /\ \A n \in Nodes, t \in Ticks, f \in Origins :
           HasEntry(agg[n], t, f) =>
               /\ f \in Nodes
               /\ measures[f][t] >= 1
               /\ HasEntry(agg[f], t, f)
               /\ agg[n][t][f] = first[f][<<t, f>>]
               /\ agg[n][t][f] = agg[f][t][f]
    /\ \A n \in Nodes : \A i \in 1 .. Len(inbox[n]) :
           LET m == inbox[n][i] IN
               /\ m.from \in Nodes
               /\ HasEntry(agg[m.from], m.tick, m.from)
               /\ Payload(m) = agg[m.from][m.tick][m.from]

\* in a path graph the far end holds, through a relay, the detection the
\* first node made
C25_Witness ==
    /\ peers = Line
    /\ \E t \in Ticks :
           /\ HasEntry(agg[NumNodes - 1], t, 0)
           /\ agg[NumNodes - 1][t][0].present
           /\ agg[NumNodes - 1][t][0].count = MaxCount
           /\ gossiped[1][<<t, 0>>] = 1

\* C27: the number of valid contributors a node holds for a tick never
\* decreases in a step, so for every min_quorum a tick that local_decision
\* decides stays decided.
C27_ValidContributorsNeverDecrease ==
    [][\A n \in Nodes, t \in Ticks :
           /\ Cardinality(ValidOf(n, t)) <= Cardinality(ValidOf(n, t))'
           /\ \A q \in Quorums :
                  Decision(n, t, q).decided => Decision(n, t, q)'.decided]_vars

\* a node that decided a tick with one contributor decides it with two, and
\* the majority changed with the second observation
C27_Witness ==
    \E n \in Nodes, t \in Ticks :
        /\ Cardinality(ValidOf(n, t)) = 2
        /\ Cardinality(YesOf(n, t)) = 1
        /\ HasEntry(agg[n], t, n)
        /\ ~agg[n][t][n].present
        /\ Decision(n, t, 1).decided
        /\ Decision(n, t, 2).decided

\* C29: at every node and for every key, the key is in seen if and only if
\* the aggregate of its tick has an entry for its originator.
C29_SeenMatchesAggregate ==
    \A n \in Nodes :
        /\ seen[n] \subseteq Keys
        /\ \A k \in Keys : k \in seen[n] <=> HasEntry(agg[n], k[1], k[2])

\* a node holds its own failed read and a relayed observation of a peer, and
\* has discarded a copy of one of them
C29_Witness ==
    \E n, f \in Nodes, t \in Ticks :
        /\ f # n
        /\ {<<t, n>>, <<t, f>>} \subseteq seen[n]
        /\ ~agg[n][t][n].valid
        /\ dups[n] # {}

\* C30: in the full mesh, once a key is saturated exactly NumNodes *
\* (NumNodes - 1) messages with it have been enqueued, NumNodes - 1 by every
\* node, and every node, the originator included, has received exactly
\* NumNodes - 1 copies; before that no node has sent or received more.
C30_MeshFloodCount ==
    peers = FullMesh =>
        \A k \in Keys :
            /\ \A n \in Nodes : enq[n][k] <= NumNodes - 1 /\ got[n][k] <= NumNodes - 1
            /\ Saturated(k) =>
                   /\ Sends(k) = NumNodes * (NumNodes - 1)
                   /\ \A n \in Nodes :
                          /\ enq[n][k] = NumNodes - 1
                          /\ got[n][k] = NumNodes - 1

\* a single observation flooded to saturation in the mesh: the originator
\* has its own observation back from every other node
C30_Witness ==
    /\ peers = FullMesh
    /\ MeasureCalls = 1
    /\ \E k \in Keys :
           /\ Saturated(k)
           /\ measures[k[2]][k[1]] = 1
           /\ got[k[2]][k] = NumNodes - 1
           /\ k \in dups[k[2]]
           /\ Sends(k) = NumNodes * (NumNodes - 1)

\* C28: under the loop of main() on the full mesh, when node 0's decision for
\* a tick is read every node's aggregate for the tick holds the observations
\* of all nodes and every inbox is empty, and the decision counts exactly the
\* valid ones; the next tick's measurements start from empty inboxes.
C28_DriverRoundsSuffice ==
    /\ (DriverTick \in Ticks /\ DriverPos = DriverDrains) =>
           /\ Quiet
           /\ \A n \in Nodes :
                  /\ DriverTick \in DOMAIN agg[n]
                  /\ DOMAIN agg[n][DriverTick] = Nodes
    /\ (reply.asked /\ DriverPos = 0 /\ turn = (reply.tick + 1) * DriverPhase) =>
           /\ (DriverTick \in Ticks => \A n \in Nodes : measures[n][DriverTick] = 0)
                  => Quiet
           /\ reply.value = Decision(0, reply.tick, reply.min_quorum)
           /\ reply.min_quorum \in 1 .. NumNodes =>
                  (reply.value.decided <=>
                       Cardinality(ValidOf(0, reply.tick)) >= reply.min_quorum)

\* the decision of the second tick is about to be read, with a camera that
\* failed in the first tick
C28_Witness ==
    /\ DriverTick = 1
    /\ DriverPos = DriverDrains
    /\ reply.asked /\ reply.tick = 0 /\ reply.value.decided
    /\ \E n \in Nodes : ~agg[0][0][n].valid /\ ~agg[0][1][n].valid
    /\ \E n \in Nodes : agg[NumNodes - 1][1][n].present

\* the counts the nodes in S report for the term
ReportedBy(S) == SumOver([f \in Nodes |-> LocalKeywordStats(f, Term).count], S)

\* C21: in the keyword search, a node tallies the RESULT of a contributor for
\* a query at most once and gossips a RESULT for that pair at most once,
\* however many copies arrive; hit_count is the sum of the counts reported by
\* the nodes in nodes_hit, and nodes_hit is a subset of contributors.
C21_ResultTalliedOnce ==
    \A n \in Nodes :
        /\ \A k \in QueryIds \X Nodes :
               /\ tally[n][k].tallied <= 1
               /\ tally[n][k].gossiped <= 1
               /\ tally[n][k].gossiped <= tally[n][k].tallied
               /\ tally[n][k].tallied = 1 <=>
                      (k[1] \in DOMAIN aggregates[n]
                          /\ k[2] \in aggregates[n][k[1]].contributors)
        /\ \A q \in DOMAIN aggregates[n] :
               /\ aggregates[n][q].nodes_hit \subseteq aggregates[n][q].contributors
               /\ aggregates[n][q].hit_count = ReportedBy(aggregates[n][q].nodes_hit)

\* a second copy of a contributor's RESULT has reached a node, which counted
\* its hits once
C21_Witness ==
    \E n, f \in Nodes, q \in QueryIds :
        /\ f # n
        /\ tally[n][<<q, f>>].arrived >= 2
        /\ tally[n][<<q, f>>].tallied = 1
        /\ tally[n][<<q, f>>].gossiped = 1
        /\ f \in aggregates[n][q].nodes_hit
        /\ aggregates[n][q].hit_count >= FaultOffset

\* every inbox of the search nodes is empty
SearchQuiet == \A n \in Nodes : qinbox[n] = <<>>

\* C22: in the fully connected network, once a query has been injected and
\* every inbox is empty again, every node's aggregate for the query has all
\* nodes as contributors, all aggregates are equal, and local_decision
\* returns the same result at every node for every min_contributors and
\* threshold.
C22_MeshSearchAgrees ==
    (qpeers = FullMesh /\ SearchQuiet) =>
        \A q \in QueryIds :
            (\E i \in Nodes : q \in seen_queries[i]) =>
                \A n, m \in Nodes :
                    /\ q \in DOMAIN aggregates[n]
                    /\ aggregates[n][q].contributors = Nodes
                    /\ aggregates[n][q] = aggregates[m][q]
                    /\ aggregates[n][q].hit_count = ReportedBy(aggregates[n][q].nodes_hit)
                    /\ \A c \in MinContributors, thr \in Thresholds :
                           SearchDecision(aggregates[n], q, c, thr)
                               = SearchDecision(aggregates[m], q, c, thr)

\* a saturated mesh with one node that has the term and a faulty one: a third
\* of the nodes hit at the default threshold reads PRESENT everywhere, half
\* would not
C22_Witness ==
    /\ qpeers = FullMesh
    /\ SearchQuiet
    /\ injected = 1
    /\ \E q \in QueryIds :
           /\ q \in seen_queries[0]
           /\ Cardinality(aggregates[0][q].nodes_hit) = 2
           /\ SearchDecision(aggregates[NumNodes - 1], q, NumNodes, DefaultThreshold).decision
                  = "PRESENT"
           /\ SearchDecision(aggregates[NumNodes - 1], q, 1, <<1, 1>>).decision
                  = "RARE/ABSENT"
           /\ ~SearchDecision(aggregates[1], q, NumNodes + 1, DefaultThreshold).decided

\* the entries of a tally that are positive (1) and negative (0) votes
Ones(n, x) == CountOf(known[n][x], 1)
Zeros(n, x) == CountOf(known[n][x], 0)

\* C23: the tie-break is the same in every variant: a camera tally with as
\* many present as absent votes gives PRESENT, and a simple_version tally
\* with as many votes for even as for odd that meets the threshold gives
\* "even".
C23_TieFavoursPositive ==
    /\ \A yes \in 1 .. NumNodes : Majority(yes, 2 * yes)
    /\ \A n \in Nodes, x \in Numbers, threshold \in 0 .. MaxCast :
           (x \in DOMAIN known[n]
                /\ Ones(n, x) = Zeros(n, x)
                /\ Len(known[n][x]) >= threshold)
               => CheckConsensus(known[n], x, threshold) = "even"

\* votes of the node that made the call f in the tally of n for x
VotesBy(n, x, f) ==
    IF x \in DOMAIN known[n]
    THEN Cardinality({i \in 1 .. Len(known[n][x]) : known[n][x][i].by = f})
    ELSE 0

\* C24: in little_update.py and temperature.py a node's tally for a number
\* or reading id holds at most one vote per originating node, so it is never
\* longer than the number of nodes.
C24_OneVotePerOriginator ==
    \A n \in Nodes : \A x \in DOMAIN known[n] :
        /\ \A f \in Nodes : VotesBy(n, x, f) <= 1
        /\ Len(known[n][x]) <= NumNodes

\* the sum of the counts all nodes report for the term
AllCounts == SumOver([f \in Nodes |-> WordCount(f, WordTerm)], Nodes)

\* C26: in the word-count script every contributor's count is put into a
\* node's results[term] at most once, and once the query has spread and every
\* inbox is empty each node has every contributor's count in it exactly once:
\* results[term] is the sum of all nodes' reported counts.
C26_CountsAddedOnce ==
    /\ \A n, f \in Nodes : added[n][f] <= 1
    /\ (asked /\ \A n \in Nodes : winbox[n] = <<>>) =>
           \A n \in Nodes :
               /\ WordTerm \in DOMAIN results[n]
               /\ results[n][WordTerm] = AllCounts
               /\ \A f \in Nodes : added[n][f] = 1

\* node n holds its own observation of tick t, and it is invalid
OwnInvalid(n, t) == HasEntry(agg[n], t, n) /\ ~agg[n][t][n].valid

KeysIn(q) == {KeyOf(q[i]) : i \in 1 .. Len(q)}

\* a whole process_messages call of node n: its inbox changed and nobody
\* called receive() on it
Drained(n) == n # Sink /\ inbox'[n] # inbox[n] /\ got'[n] = got[n]

\* C32: no step of a node puts a message into that node's own inbox. A
\* process_messages call therefore handles exactly the messages queued when
\* it started (each accepted or discarded at the seen check), ends with the
\* node's inbox empty, and gossips the accepted messages, once each, only
\* when the inbox has been drained: the statements of the sink's call take
\* the head of the inbox one by one and reach the gossip loop with the inbox
\* empty.
C32_NoSelfEnqueue ==
    [][/\ \A n \in Nodes :
              gossiped'[n] # gossiped[n] =>
                  /\ got'[n] = got[n]
                  /\ inbox'[n] \in {inbox[n], <<>>}
       /\ \A n \in Nodes :
              Drained(n) =>
                  /\ inbox'[n] = <<>>
                  /\ handled'[n] = handled[n] \cup KeysIn(inbox[n])
                  /\ \A k \in Keys :
                         /\ gossiped'[n][k] - gossiped[n][k]
                                = stored'[n][k] - stored[n][k]
                         /\ stored'[n][k] - stored[n][k]
                                = IF k \in KeysIn(inbox[n]) \ seen[n] THEN 1 ELSE 0
                         /\ k \in KeysIn(inbox[n]) \cap seen[n] => k \in dups'[n]
       /\ PassBusy =>
              /\ got'[Sink] = got[Sink]
              /\ inbox'[Sink] = inbox[Sink]
                     \/ /\ pass[1].pc = "get"
                        /\ inbox[Sink] # <<>>
                        /\ inbox'[Sink] = Tail(inbox[Sink])
                        /\ pass'[1].m = Head(inbox[Sink])
              /\ pass[1].pc = "check" /\ pass[1].m.kind = "OBS" =>
                     KeyOf(pass[1].m) \in handled'[Sink]
              /\ pass'[1].pc = "done" => inbox'[Sink] = <<>>
       /\ pass[1].pc = "flush" =>
              /\ inbox[Sink] = <<>>
              /\ KeysIn(pass[1].outbox) \subseteq seen[Sink]
              /\ \A k \in Keys :
                     gossiped'[Sink][k] - gossiped[Sink][k]
                         = IF k \in KeysIn(pass[1].outbox) THEN 1 ELSE 0
       /\ (gossiped'[Sink] # gossiped[Sink] /\ measures' = measures) =>
              pass[1].pc = "flush"
      ]_vars

\* in the full mesh, where every peer list holds the node itself, the sink's
\* call has handled an observation and a relayed copy of it, gossiped the
\* observation once and left its inbox empty
C32_Witness ==
    /\ peers = FullMesh
    /\ pass[1].pc = "done"
    /\ inbox[Sink] = <<>>
    /\ \E k \in Keys :
           /\ k[2] # Sink
           /\ got[Sink][k] = 2
           /\ stored[Sink][k] = 1
           /\ gossiped[Sink][k] = 1
           /\ k \in dups[Sink]
           /\ enq[Sink][k] = NumNodes - 1

====
